---- MODULE Spec2Model ----
(***************************************************************************)
(* Model of src/http_server.py: the Flask view function get() bound to     *)
(* GET /squareme.  Every request is one invocation of get(), run by the    *)
(* hosting server in a handling context of its own.  The invocation is     *)
(* split at its suspension point (time.sleep) so that interleavings of     *)
(* concurrent invocations are visible.                                     *)
(***************************************************************************)
EXTENDS Integers, Sequences, FiniteSets, TLC

\* ---------------------------------------------------------------- bounds
\* number of requests handled concurrently (specification SpecConc)
NumReqs == 2
\* longest query-string value of `num` that is enumerated (specification Spec)
MaxLen == 3

Reqs == 1..NumReqs

\* ------------------------------------------------- the query parameter
\* Characters a decoded `num` value is built from: signs, whitespace, the
\* digit separator, two digits and a non-digit.
Alphabet == {"-", "+", " ", "_", "0", "3", "a"}

RECURSIVE StringsUpTo(_)
StringsUpTo(n) ==
    IF n = 0 THEN {<<>>}
    ELSE LET shorter == StringsUpTo(n - 1)
         IN  shorter \cup {Append(s, c) : s \in {t \in shorter : Len(t) = n - 1},
                                          c \in Alphabet}

\* request.args.get('num'): the decoded value, or None when the parameter
\* is missing from the query string.
None == [present |-> FALSE, s |-> <<>>]
Str(s) == [present |-> TRUE, s |-> s]

\* the queries of the documented examples: num=5, num=-3, num=abc
Examples == {Str(<<"5">>), Str(<<"-", "3">>), Str(<<"a", "b", "c">>)}

\* every query enumerated for a single request
Inputs == {None} \cup Examples \cup {Str(s) : s \in StringsUpTo(MaxLen)}

\* queries used when several requests run concurrently
SampleInputs == {None, Str(<<"3">>), Str(<<"-", "3", "0">>), Str(<<"a">>)}

\* ------------------------------------------------------- int(val, 10)
IsDigit(c) == c \in {"0", "1", "2", "3", "4", "5", "6", "7", "8", "9"}

DigitVal(c) ==
    CASE c = "0" -> 0 [] c = "1" -> 1 [] c = "2" -> 2 [] c = "3" -> 3
      [] c = "4" -> 4 [] c = "5" -> 5 [] c = "6" -> 6 [] c = "7" -> 7
      [] c = "8" -> 8 [] c = "9" -> 9

IsSpace(c) == c = " "

\* str.strip() as int() applies it: leading and trailing whitespace dropped
RECURSIVE LStrip(_)
LStrip(s) == IF s # <<>> /\ IsSpace(Head(s)) THEN LStrip(Tail(s)) ELSE s

RECURSIVE RStrip(_)
RStrip(s) ==
    IF s # <<>> /\ IsSpace(s[Len(s)]) THEN RStrip(SubSeq(s, 1, Len(s) - 1)) ELSE s

Strip(s) == RStrip(LStrip(s))

\* the digit part: digits, single underscores only between two digits
ValidDigits(d) ==
    /\ d # <<>>
    /\ \A i \in 1..Len(d) :
          \/ IsDigit(d[i])
          \/ /\ d[i] = "_"
             /\ i > 1 /\ i < Len(d)
             /\ IsDigit(d[i - 1]) /\ IsDigit(d[i + 1])

\* value of a valid digit part, most significant digit first
RECURSIVE DigitsValue(_, _)
DigitsValue(d, acc) ==
    IF d = <<>> THEN acc
    ELSE IF Head(d) = "_" THEN DigitsValue(Tail(d), acc)
    ELSE DigitsValue(Tail(d), acc * 10 + DigitVal(Head(d)))

HasSign(t) == t # <<>> /\ Head(t) \in {"-", "+"}
Unsigned(t) == IF HasSign(t) THEN Tail(t) ELSE t

\* int(val, 10): the integer, or the exception it raises
int10(val) ==
    IF ~val.present
    THEN [ok |-> FALSE, n |-> 0, exc |-> "TypeError"]
    ELSE LET t == Strip(val.s)
             d == Unsigned(t)
         IN  IF ~ValidDigits(d)
             THEN [ok |-> FALSE, n |-> 0, exc |-> "ValueError"]
             ELSE LET m == DigitsValue(d, 0)
                  IN  [ok |-> TRUE,
                       n  |-> IF HasSign(t) /\ Head(t) = "-" THEN 0 - m ELSE m,
                       exc |-> "none"]

\* ------------------------------------------------------------ the state
VARIABLES
    TTL,        \* the module-level global TTL (line 8)
    pc,         \* per request: where its invocation of get() stands
    arg,        \* per request: the `num` value of its query string
    val,        \* per request: the local `val` after int(val, 10)
    delay,      \* per request: the local `delay`
    sleepFor,   \* per request: the argument passed to time.sleep, in seconds
    elapsed,    \* per request: milliseconds the invocation was suspended
    errDraw,    \* per request: the value of random.randint(0, 10) at line 18
    ret,        \* per request: what the invocation returned (or raised)
    count,      \* per request: how often each step of get() was executed
    stdout,     \* what print(e) wrote, in order
    arrived,    \* requests in the order they were dispatched to get()
    completed   \* requests in the order their invocation finished

vars == <<TTL, pc, arg, val, delay, sleepFor, elapsed, errDraw, ret, count,
          stdout, arrived, completed>>

\* ------------------------------------------------------------- responses
EmptyBody == [k \in {} |-> 0]

\* the invocation has not finished
Pending == [kind |-> "pending", status |-> 0, body |-> EmptyBody, exc |-> "none"]

\* get() fell off the end of the except clause: the view returns None
ReturnNone == [kind |-> "None", status |-> 0, body |-> EmptyBody, exc |-> "none"]

\* an exception left get()
Raised(exc) == [kind |-> "raised", status |-> 0, body |-> EmptyBody, exc |-> exc]

\* jsonify(body): a JSON response with the default status 200
jsonify(body) == [kind |-> "Response", status |-> 200, body |-> body, exc |-> "none"]

\* {"error": "something went wrong"}
ErrorBody == [k \in {"error"} |-> "something went wrong"]

\* mutant: the value doubled instead of squared
SuccessBody_sum(v, d) ==
    [k \in {"msg", "ttl(ms)"} |-> IF k = "msg" THEN v + v ELSE TTL + d]

\* {"msg": val * val, "ttl(ms)": TTL + delay}
SuccessBody(v, d) ==
    [k \in {"msg", "ttl(ms)"} |-> IF k = "msg" THEN v * v ELSE TTL + d]

\* mutant: an upper bound one too far
randint_wide(a, b) == a..(b + 1)

\* random.randint(a, b): any integer of the closed interval
randint(a, b) == a..b

\* mutant: floor division, delay // 1000
SleepArg_floor(d) == [num |-> d \div 1000, den |-> 1]

\* delay / 1000: true division, the seconds given to time.sleep
SleepArg(d) == [num |-> d, den |-> 1000]

\* the time a suspension of t seconds takes, in milliseconds
Millis(t) == (t.num * 1000) \div t.den

\* mutant: `except ValueError`
Catches_valueerror(exc) == exc = "ValueError"

\* `except Exception`: the exception classes the handler catches
Catches(exc) == exc \in {"TypeError", "ValueError"}

NoCalls == [delayDraws |-> 0, sleeps |-> 0, errDraws |-> 0, returns |-> 0]

Bump(r, field) == [count EXCEPT ![r][field] = @ + 1]

\* -------------------------------------------------------------- actions
Init ==
    /\ TTL = 100
    /\ pc = [r \in Reqs |-> "idle"]
    /\ arg = [r \in Reqs |-> None]
    /\ val = [r \in Reqs |-> 0]
    /\ delay = [r \in Reqs |-> 0]
    /\ sleepFor = [r \in Reqs |-> SleepArg(0)]
    /\ elapsed = [r \in Reqs |-> 0]
    /\ errDraw = [r \in Reqs |-> 0]
    /\ ret = [r \in Reqs |-> Pending]
    /\ count = [r \in Reqs |-> NoCalls]
    /\ stdout = <<>>
    /\ arrived = <<>>
    /\ completed = <<>>

\* the hosting server routes GET /squareme to a new invocation of get();
\* `queries` are the query strings enumerated
Arrive(r, queries) ==
    /\ pc[r] = "idle"
    /\ \E a \in queries : arg' = [arg EXCEPT ![r] = a]
    /\ pc' = [pc EXCEPT ![r] = "L14"]
    /\ arrived' = Append(arrived, r)
    /\ UNCHANGED <<TTL, val, delay, sleepFor, elapsed, errDraw, ret, count,
                   stdout, completed>>

\* lines 22-24: the except clause, reached with exception exc
Except(r, exc) ==
    /\ pc' = [pc EXCEPT ![r] = "done"]
    /\ completed' = Append(completed, r)
    /\ count' = Bump(r, "returns")
    /\ IF Catches(exc)
       THEN /\ stdout' = Append(stdout, exc)
            /\ ret' = [ret EXCEPT ![r] = ReturnNone]
       ELSE /\ stdout' = stdout
            /\ ret' = [ret EXCEPT ![r] = Raised(exc)]

\* lines 14-15: val = request.args.get('num'); val = int(val, 10)
Parse(r) ==
    /\ pc[r] = "L14"
    /\ LET p == int10(arg[r])
       IN  IF p.ok
           THEN /\ val' = [val EXCEPT ![r] = p.n]
                /\ pc' = [pc EXCEPT ![r] = "L16"]
                /\ UNCHANGED <<ret, count, stdout, completed>>
           ELSE /\ Except(r, p.exc)
                /\ val' = val
    /\ UNCHANGED <<TTL, arg, delay, sleepFor, elapsed, errDraw, arrived>>

\* mutant: the delay is drawn but the invocation never sleeps
DrawDelay_nosleep(r, draws) ==
    /\ pc[r] = "L16"
    /\ \E d \in (50..200) \cap draws :
          delay' = [delay EXCEPT ![r] = 50 + d]
    /\ count' = [count EXCEPT ![r].delayDraws = @ + 1]
    /\ pc' = [pc EXCEPT ![r] = "L18"]
    /\ UNCHANGED <<TTL, arg, val, sleepFor, elapsed, errDraw, ret, stdout,
                   arrived, completed>>

\* line 16: delay = 50 + random.randint(50, 200); `draws` are the draws
\* enumerated
DrawDelay(r, draws) ==
    /\ pc[r] = "L16"
    /\ \E d \in randint(50, 200) \cap draws :
          delay' = [delay EXCEPT ![r] = 50 + d]
    /\ count' = Bump(r, "delayDraws")
    /\ pc' = [pc EXCEPT ![r] = "L17"]
    /\ UNCHANGED <<TTL, arg, val, sleepFor, elapsed, errDraw, ret, stdout,
                   arrived, completed>>

\* mutant: the sleep is taken under a lock shared by all invocations
Sleep_locked(r) ==
    /\ pc[r] = "L17"
    /\ \A q \in Reqs \ {r} : pc[q] # "sleeping"
    /\ sleepFor' = [sleepFor EXCEPT ![r] = [num |-> delay[r], den |-> 1000]]
    /\ count' = [count EXCEPT ![r].sleeps = @ + 1]
    /\ pc' = [pc EXCEPT ![r] = "sleeping"]
    /\ UNCHANGED <<TTL, arg, val, delay, elapsed, errDraw, ret, stdout,
                   arrived, completed>>

\* line 17: time.sleep(delay / 1000) is called and suspends this invocation
Sleep(r) ==
    /\ pc[r] = "L17"
    /\ sleepFor' = [sleepFor EXCEPT ![r] = SleepArg(delay[r])]
    /\ count' = Bump(r, "sleeps")
    /\ pc' = [pc EXCEPT ![r] = "sleeping"]
    /\ UNCHANGED <<TTL, arg, val, delay, elapsed, errDraw, ret, stdout,
                   arrived, completed>>

\* line 17: time.sleep returns once the requested time has passed
Wake(r) ==
    /\ pc[r] = "sleeping"
    /\ elapsed' = [elapsed EXCEPT ![r] = Millis(sleepFor[r])]
    /\ pc' = [pc EXCEPT ![r] = "L18"]
    /\ UNCHANGED <<TTL, arg, val, delay, sleepFor, errDraw, ret, count, stdout,
                   arrived, completed>>

\* what every mutant of DrawError leaves alone
DrawErrorFrame == UNCHANGED <<TTL, arg, val, delay, sleepFor, elapsed, stdout, arrived>>

\* mutant: the `return` of line 19 is missing, the view falls through to None
DrawError_noreturn(r, draws) ==
    /\ pc[r] = "L18"
    /\ \E e \in (0..10) \cap draws :
          /\ errDraw' = [errDraw EXCEPT ![r] = e]
          /\ ret' = [ret EXCEPT ![r] =
                        IF e = 0 THEN ReturnNone
                        ELSE jsonify([k \in {"msg", "ttl(ms)"} |->
                                 IF k = "msg" THEN val[r] * val[r] ELSE TTL + delay[r]])]
    /\ count' = [count EXCEPT ![r].errDraws = @ + 1, ![r].returns = @ + 1]
    /\ pc' = [pc EXCEPT ![r] = "done"]
    /\ completed' = Append(completed, r)
    /\ DrawErrorFrame

\* mutant: the test of line 18 compares with 10 instead of 0
DrawError_test10(r, draws) ==
    /\ pc[r] = "L18"
    /\ \E e \in (0..10) \cap draws :
          /\ errDraw' = [errDraw EXCEPT ![r] = e]
          /\ ret' = [ret EXCEPT ![r] =
                        IF e = 10 THEN jsonify([k \in {"error"} |-> "something went wrong"])
                        ELSE jsonify([k \in {"msg", "ttl(ms)"} |->
                                 IF k = "msg" THEN val[r] * val[r] ELSE TTL + delay[r]])]
    /\ count' = [count EXCEPT ![r].errDraws = @ + 1, ![r].returns = @ + 1]
    /\ pc' = [pc EXCEPT ![r] = "done"]
    /\ completed' = Append(completed, r)
    /\ DrawErrorFrame

\* mutant: `delay` is a module-level global, so the response carries the
\* delay drawn last by any invocation
DrawError_shared(r, draws) ==
    /\ pc[r] = "L18"
    /\ \E e \in (0..10) \cap draws :
          /\ errDraw' = [errDraw EXCEPT ![r] = e]
          /\ ret' = [ret EXCEPT ![r] =
                        IF e = 0 THEN jsonify([k \in {"error"} |-> "something went wrong"])
                        ELSE LET last == CHOOSE q \in Reqs :
                                     /\ count[q].delayDraws > 0
                                     /\ \A o \in Reqs : count[o].delayDraws > 0 => q >= o
                             IN  jsonify([k \in {"msg", "ttl(ms)"} |->
                                     IF k = "msg" THEN val[r] * val[r]
                                     ELSE TTL + delay[last]])]
    /\ count' = [count EXCEPT ![r].errDraws = @ + 1, ![r].returns = @ + 1]
    /\ pc' = [pc EXCEPT ![r] = "done"]
    /\ completed' = Append(completed, r)
    /\ DrawErrorFrame

\* mutant: a failed draw is retried from line 16 instead of being returned
DrawError_retry(r, draws) ==
    /\ pc[r] = "L18"
    /\ \E e \in (0..10) \cap draws :
          /\ errDraw' = [errDraw EXCEPT ![r] = e]
          /\ IF e = 0
             THEN /\ pc' = [pc EXCEPT ![r] = "L16"]
                  /\ count' = [count EXCEPT ![r].errDraws = @ + 1]
                  /\ UNCHANGED <<ret, completed>>
             ELSE /\ ret' = [ret EXCEPT ![r] =
                              jsonify([k \in {"msg", "ttl(ms)"} |->
                                  IF k = "msg" THEN val[r] * val[r] ELSE TTL + delay[r]])]
                  /\ count' = [count EXCEPT ![r].errDraws = @ + 1, ![r].returns = @ + 1]
                  /\ pc' = [pc EXCEPT ![r] = "done"]
                  /\ completed' = Append(completed, r)
    /\ DrawErrorFrame

\* lines 18-21: the error draw and the response; `draws` are the draws
\* enumerated
DrawError(r, draws) ==
    /\ pc[r] = "L18"
    /\ \E e \in randint(0, 10) \cap draws :
          /\ errDraw' = [errDraw EXCEPT ![r] = e]
          /\ ret' = [ret EXCEPT ![r] =
                        IF e = 0 THEN jsonify(ErrorBody)
                        ELSE jsonify(SuccessBody(val[r], delay[r]))]
    /\ count' = [count EXCEPT ![r].errDraws = @ + 1, ![r].returns = @ + 1]
    /\ pc' = [pc EXCEPT ![r] = "done"]
    /\ completed' = Append(completed, r)
    /\ UNCHANGED <<TTL, arg, val, delay, sleepFor, elapsed, stdout, arrived>>

\* ------------------------------------------------------- specifications
\* the draws enumerated when several requests run concurrently
DelaySample == {50, 200}
ErrSample == {0, 1, 10}

\* one request, every query up to MaxLen characters, every draw
Next ==
    \/ Arrive(1, Inputs)
    \/ Parse(1)
    \/ DrawDelay(1, Int)
    \/ Sleep(1)
    \/ Wake(1)
    \/ DrawError(1, Int)

Spec == Init /\ [][Next]_vars

\* the steps request r can take when requests run concurrently
Step(r) ==
    \/ Arrive(r, SampleInputs)
    \/ Parse(r)
    \/ DrawDelay(r, DelaySample)
    \/ Sleep(r)
    \/ Wake(r)
    \/ DrawError(r, ErrSample)

NextConc == \E r \in Reqs : Step(r)

SpecConc == Init /\ [][NextConc]_vars

\* ----------------------------------------------------------- properties
IsResponse(x) == x.kind = "Response"

\* the success payload: exactly the keys msg and ttl(ms)
IsSuccess(x) == IsResponse(x) /\ DOMAIN x.body = {"msg", "ttl(ms)"}

\* the error payload {"error": "something went wrong"}
IsError(x) ==
    /\ IsResponse(x)
    /\ DOMAIN x.body = {"error"}
    /\ x.body["error"] = "something went wrong"

Done(r) == pc[r] = "done"

\* `num` of request r is accepted by int(val, 10)
ValidNum(r) == int10(arg[r]).ok

\* the integer `num` of request r denotes
NumOf(r) == int10(arg[r]).n

\* everything an invocation holds of its own
Local(r) == <<pc[r], arg[r], val[r], delay[r], sleepFor[r], elapsed[r],
              errDraw[r], ret[r], count[r]>>

\* C1: whenever a request is answered with the success payload, its `num`
\* parsed as an integer n and msg is n*n, for every delay and error draw;
\* in particular num=5 gives 25, num=-3 gives 9 and num=-30 gives 900.
C1_MsgIsSquare ==
    \A r \in Reqs :
        IsSuccess(ret[r]) =>
            /\ ValidNum(r)
            /\ ret[r].body["msg"] = NumOf(r) * NumOf(r)
            /\ arg[r] = Str(<<"5">>) => ret[r].body["msg"] = 25
            /\ arg[r] = Str(<<"-", "3">>) => ret[r].body["msg"] = 9
            /\ arg[r] = Str(<<"-", "3", "0">>) => ret[r].body["msg"] = 900
            /\ arg[r] = Str(<<" ", "0", "3">>) => ret[r].body["msg"] = 9

\* a negative num answered with its square
C1_Witness ==
    \E r \in Reqs :
        /\ arg[r] = Str(<<"-", "3">>)
        /\ IsSuccess(ret[r])
        /\ ret[r].body["msg"] = 9

\* C2: in every success response ttl(ms) lies between 150 and 350.
C2_TtlRange ==
    \A r \in Reqs :
        IsSuccess(ret[r]) =>
            /\ ret[r].body["ttl(ms)"] >= 150
            /\ ret[r].body["ttl(ms)"] <= 350

\* a success response with the largest delay term
C2_Witness ==
    \E r \in Reqs : IsSuccess(ret[r]) /\ ret[r].body["ttl(ms)"] = 350

\* C3: a finished request with a valid num was answered with status 200 and
\* a body that is either the success payload or the error payload, never
\* both and never anything else.
C3_ResponseShape ==
    \A r \in Reqs :
        (Done(r) /\ ValidNum(r)) =>
            /\ IsResponse(ret[r])
            /\ ret[r].status = 200
            /\ IsSuccess(ret[r]) \/ IsError(ret[r])
            /\ ~(IsSuccess(ret[r]) /\ IsError(ret[r]))

\* a valid num answered with the error payload
C3_Witness ==
    \E r \in Reqs : Done(r) /\ ValidNum(r) /\ IsError(ret[r]) /\ NumOf(r) = 33

\* C4: a finished request with a valid num drew one integer of 0..10; the
\* response is the error payload exactly when the draw was 0 and the success
\* payload for the draws 1..10, with status 200 either way.
C4_ErrorIffZero ==
    \A r \in Reqs :
        (Done(r) /\ ValidNum(r)) =>
            /\ errDraw[r] \in 0..10
            /\ count[r].errDraws = 1
            /\ IsError(ret[r]) <=> errDraw[r] = 0
            /\ errDraw[r] \in 1..10 => IsSuccess(ret[r])
            /\ ret[r].status = 200

\* the largest draw answered with the success payload
C4_Witness ==
    \E r \in Reqs : Done(r) /\ errDraw[r] = 10 /\ IsSuccess(ret[r])

\* C5: in every success response ttl(ms) is TTL + delay with TTL = 100, and
\* delay is the time the request was suspended; it was drawn once.
C5_TtlIsTTLPlusDelay ==
    \A r \in Reqs :
        IsSuccess(ret[r]) =>
            /\ ret[r].body["ttl(ms)"] = TTL + delay[r]
            /\ ret[r].body["ttl(ms)"] = 100 + elapsed[r]
            /\ count[r].delayDraws = 1
            /\ count[r].sleeps = 1

\* a success response after a suspension of 175 ms
C5_Witness ==
    \E r \in Reqs :
        IsSuccess(ret[r]) /\ elapsed[r] = 175 /\ ret[r].body["ttl(ms)"] = 275

\* C6: a request whose num is missing or not a base-10 integer finishes with
\* the exception caught: get() returns None, it neither raises nor returns
\* the success or the error payload, and the exception was printed.
C6_ParseFailureSwallowed ==
    \A r \in Reqs :
        /\ (Done(r) /\ ~ValidNum(r)) =>
              /\ ret[r].kind = "None"
              /\ ~IsSuccess(ret[r]) /\ ~IsError(ret[r])
              /\ stdout # <<>>
        /\ arg[r] \in {None, Str(<<>>), Str(<<"a", "b", "c">>), Str(<<"-">>),
                       Str(<<"3", "a">>), Str(<<"3", " ", "3">>)} => ~ValidNum(r)

\* a request without the parameter, finished
C6_Witness ==
    \E r \in Reqs : Done(r) /\ arg[r] = None /\ ret[r].kind = "None"

\* C7: while a request is suspended in its delay, every other unfinished
\* request can take its next step.
C7_SleepBlocksNobody ==
    \A r \in Reqs : \A q \in Reqs \ {r} :
        (pc[r] = "sleeping" /\ ~Done(q)) => ENABLED Step(q)

\* a later request answered while the earlier one still sleeps
C7_Witness ==
    /\ NumReqs >= 2
    /\ arrived = <<1, 2>>
    /\ pc[1] = "sleeping"
    /\ completed = <<2>>
    /\ IsSuccess(ret[2])

\* the outcome get() yields for num a, delay draw d and error draw e
Outcome(a, d, e) ==
    IF ~int10(a).ok THEN ReturnNone
    ELSE IF e = 0 THEN jsonify(ErrorBody)
    ELSE jsonify([k \in {"msg", "ttl(ms)"} |->
             IF k = "msg" THEN int10(a).n * int10(a).n ELSE 150 + d])

\* C8: a finished request's outcome is a function of its own num, delay draw
\* and error draw; a step changes the state of one invocation only; TTL is
\* 100 throughout.
C8_Independent ==
    /\ [](\A r \in Reqs :
            Done(r) => ret[r] = Outcome(arg[r], delay[r] - 50, errDraw[r]))
    /\ [](TTL = 100)
    /\ [][\E r \in Reqs : \A q \in Reqs \ {r} : Local(q)' = Local(q)]_vars

\* two requests answered with different delays
C8_Witness ==
    /\ NumReqs >= 2
    /\ IsSuccess(ret[1]) /\ IsSuccess(ret[2])
    /\ ret[1].body["ttl(ms)"] = 350
    /\ ret[2].body["ttl(ms)"] = 200

\* C9: a request draws its delay, sleeps, draws its error and returns at most
\* once each; a draw of 0 is answered with the error payload after a single
\* pass; a finished request never changes again.
C9_HandledOnce ==
    /\ [](\A r \in Reqs :
            /\ count[r].delayDraws <= 1
            /\ count[r].sleeps <= 1
            /\ count[r].errDraws <= 1
            /\ count[r].returns <= 1
            /\ Done(r) <=> count[r].returns = 1
            /\ Len(SelectSeq(completed, LAMBDA x : x = r)) <= 1
            /\ (count[r].errDraws = 1 /\ errDraw[r] = 0) =>
                  /\ Done(r)
                  /\ IsError(ret[r])
                  /\ count[r].delayDraws = 1
                  /\ count[r].sleeps = 1)
    /\ [][\A r \in Reqs : Done(r) => Local(r)' = Local(r)]_vars

\* a request answered with the error payload after one pass
C9_Witness ==
    \E r \in Reqs :
        /\ Done(r) /\ IsError(ret[r])
        /\ count[r] = [delayDraws |-> 1, sleeps |-> 1, errDraws |-> 1, returns |-> 1]

\* C10: an invocation past line 15 has a num that parsed; the error draw and
\* every response come after a completed sleep of the full delay; a request
\* whose num does not parse finishes without sleeping and without a draw.
C10_StepOrder ==
    \A r \in Reqs :
        /\ pc[r] \in {"L16", "L17", "sleeping", "L18"} => ValidNum(r)
        /\ count[r].sleeps = 1 => (ValidNum(r) /\ count[r].delayDraws = 1)
        /\ (count[r].errDraws = 1 \/ IsResponse(ret[r])) =>
              /\ count[r].sleeps = 1
              /\ pc[r] # "sleeping"
              /\ elapsed[r] = delay[r]
              /\ elapsed[r] >= 100
        /\ ~ValidNum(r) => /\ pc[r] \in {"idle", "L14", "done"}
                           /\ count[r].delayDraws = 0
                           /\ count[r].sleeps = 0
                           /\ count[r].errDraws = 0
                           /\ elapsed[r] = 0

\* a request whose num does not parse, finished without a sleep or a draw
C10_Witness ==
    \E r \in Reqs :
        /\ Done(r) /\ arg[r] = Str(<<"a", "b", "c">>)
        /\ count[r] = [delayDraws |-> 0, sleeps |-> 0, errDraws |-> 0, returns |-> 1]

====
